---------------------------- MODULE Spec2Model ----------------------------
(***************************************************************************)
(* Orchestration kernel of the explorium-assistant demo:                   *)
(*   - the reason/act graph built by create_explorium_langgraph            *)
(*     (src/app/agent/graph.py),                                           *)
(*   - the collector run_mcp_and_send_final and the dispatcher             *)
(*     websocket_endpoint (src/app/main.py),                               *)
(*   - the single-shot pipeline send_standard_llm_response                 *)
(*     (src/app/agent/standard_agent.py).                                  *)
(*                                                                         *)
(* One websocket connection is modelled.  Every action is the code that    *)
(* runs between two suspension points (await) of one asyncio task.         *)
(* Texts are sequences of tokens; a token stands for a run of characters.  *)
(***************************************************************************)
EXTENDS Naturals, Sequences, FiniteSets

VARIABLES
    active_connections,  \* manager.active_connections: the websockets listed
    tools,        \* the tool list of the session, and how often it was loaded
    handler,      \* position of websocket_endpoint: "connecting" |
                  \* "receiving" | "exited" | "failed" | "setup_failed",
                  \* before them "accepting", or "refused", "remove_failed"
    connected,    \* TRUE while the websocket accepts send_text
    inboundLeft,  \* inbound frames the client still sends (environment)
    nreq,         \* requests dispatched so far on the connection
    mcp,          \* mcp[r]: the tool-augmented run of request r
    std,          \* std[r]: the single-shot run of request r
    sent          \* events delivered to the client, in order

vars == <<active_connections, tools, handler, connected, inboundLeft, nreq, mcp, std, sent>>

---------------------------------------------------------------------------
(* Bounds of the model and constants of the program *)

\* recursion_limit handed to graph.astream: graph super-steps per run
RecursionLimit == 50

\* most tool calls the model puts into one AIMessage
MaxCalls == 2

\* leading REASON/ACT cycles of a run in which the model may ask for several
\* calls or give any final content, and in which tools may fail
MaxVariedCycles == 1

\* requests a connection can hold in this model
MaxRequests == 2

\* most sections (a header and what follows it) of a final answer whose
\* text is drawn freely
MaxSections == 3

Requests == 1 .. MaxRequests

\* the last full REASON/ACT cycle the recursion limit admits
LastCycle == RecursionLimit \div 2

\* the element of a one-element set
The(S) == CHOOSE x \in S : TRUE

Min(S) == CHOOSE x \in S : \A y \in S : x <= y
Max(S) == CHOOSE x \in S : \A y \in S : x >= y

---------------------------------------------------------------------------
(* Message contents *)

WS == "_"                       \* a run of whitespace characters

ContactsHdr == {"Potential Contacts:", "potential contacts:"}
SubjectHdr  == {"Subject:", "SUBJECT:"}
BodyHdr     == {"Body:", "body:"}

\* the markers the system prompt puts around tool-sourced facts
McpMarkers == {"<<<mcp_data>>>", "<<<end_mcp_data>>>"}

\* AIMessage.content is a str or a list of content blocks; None before any
StrContent(t)   == [kind |-> "str",  text |-> t,    blocks |-> <<>>]
ListContent(bs) == [kind |-> "list", text |-> <<>>, blocks |-> bs]
NoneContent     == [kind |-> "none", text |-> <<>>, blocks |-> <<>>]

TextBlock(t) == [type |-> "text", text |-> t]
ToolUseBlock == [type |-> "tool_use", text |-> <<>>]

\* Python truthiness of a content value
Truthy(c) ==
    \/ c.kind = "str"  /\ c.text # <<>>
    \/ c.kind = "list" /\ c.blocks # <<>>

\* "I'm currently experiencing some rate limiting. Please try again in a moment."
RateLimitText == <<"rate-limit-apology">>

\* a tool-call-free answer in the format the system prompt asks for
PlainFinal == StrContent(<<"Subject:", WS, "B", WS, "Body:", WS, "C">>)

\* contents of a tool-call-free answer of the model
FinalContents ==
    { PlainFinal,
      StrContent(<<>>),
      StrContent(<<WS>>),
      StrContent(<<"Dear", WS, "team">>),
      StrContent(<<"Body:", WS, "hello", "<<<mcp_data>>>", "X", "<<<end_mcp_data>>>">>),
      StrContent(<<"Potential Contacts:", WS, "A", WS, "Subject:", WS, "B", WS,
                   "body:", WS, "C", WS>>),
      ListContent(<<>>),
      ListContent(<<TextBlock(<<"Subject:", "B", "Body:", "C">>)>>),
      ListContent(<<ToolUseBlock>>) }

\* content that accompanies tool calls
ToolTurnContent == ListContent(<<TextBlock(<<"Let", WS, "me", WS, "look">>), ToolUseBlock>>)

\* the name a tool call carries
ToolName == "match_businesses"

\* what client.get_tools() returns: the tools of the MCP server
McpServerTools == <<"match_businesses", "fetch_prospects">>

\* the websocket of the connection
Websocket == "ws"

\* websocket in manager.active_connections
Listed(conns, ws) == \E i \in 1 .. Len(conns) : conns[i] = ws

\* list.remove(ws) on a list that holds ws: its first occurrence goes
ListRemove(conns, ws) ==
    LET k == Min({i \in 1 .. Len(conns) : conns[i] = ws})
    IN  SubSeq(conns, 1, k - 1) \o SubSeq(conns, k + 1, Len(conns))

\* src/app/main.py, lines 287-288 and 292-294: the websocket is removed
\* if it is listed
DisconnectIfListed(conns, ws) ==
    IF Listed(conns, ws) THEN ListRemove(conns, ws) ELSE conns

\* the tool list of a session: nothing before get_tools, its result after
NoTools     == [loads |-> 0, list |-> <<>>]
LoadedTools == [loads |-> 1, list |-> McpServerTools]

---------------------------------------------------------------------------
(* Messages of the transcript *)

HumanMessage(c) ==
    [type |-> "human", content |-> c, tool_calls |-> <<>>,
     tool_call_id |-> 0, name |-> "", status |-> ""]

AIMessage(c, calls) ==
    [type |-> "ai", content |-> c, tool_calls |-> calls,
     tool_call_id |-> 0, name |-> "", status |-> ""]

ToolMessage(call, st) ==
    [type |-> "tool",
     content |-> StrContent(IF st = "error" THEN <<"Error:", call.name>>
                                             ELSE <<"result-of", call.name>>),
     tool_calls |-> <<>>, tool_call_id |-> call.id, name |-> call.name,
     status |-> st]

\* the companies the requests of a connection are about
Companies == <<"Acme", "Globex", "Initech", "Umbrella">>

\* user_input of request r: each request has a text of its own
UserInput(r) ==
    StrContent(<<"write", WS, "to", WS, Companies[((r - 1) % Len(Companies)) + 1]>>)

SystemMessage(c) ==
    [type |-> "system", content |-> c, tool_calls |-> <<>>,
     tool_call_id |-> 0, name |-> "", status |-> ""]

\* the instruction set of the tool-augmented agent (src/app/agent/state.py)
EXPLORIUM_SYSTEM_PROMPT == StrContent(<<"explorium-system-prompt">>)

\* the prompt of the single-shot agent around the user's request
\* (src/app/agent/standard_agent.py, lines 157-170)
FormattedContent(c) ==
    StrContent(<<"sales-email-assistant-prompt">> \o c.text)

---------------------------------------------------------------------------
(* The graph state and its reducer (src/app/agent/state.py) *)

\* Annotated[list, add_messages]: a node's messages are appended in order
add_messages(left, right) == left \o right

LastMessage(msgs) == msgs[Len(msgs)]

\* the most recent AIMessage of a transcript (0 when there is none)
LastAIIndex(msgs) ==
    LET S == {i \in 1 .. Len(msgs) : msgs[i].type = "ai"}
    IN  IF S = {} THEN 0 ELSE Max(S)

---------------------------------------------------------------------------
(* One tool-augmented run: graph state plus the locals of the collector *)

Unbound   == [bound |-> FALSE, text |-> <<>>]
Bound(t)  == [bound |-> TRUE,  text |-> t]

NoEmail == [set |-> FALSE, potential_contacts |-> <<>>, subject |-> <<>>, body |-> <<>>]

NoEvent ==
    [req |-> 0, pipeline |-> "", type |-> "", source |-> "", detail |-> "",
     content |-> NoneContent, email |-> NoEmail, steps |-> <<>>]

IdleRun ==
    [pc |-> "idle",                 \* where the task is suspended
     status |-> "idle",             \* graph: idle | running | done | aborted
     messages |-> <<>>,             \* AgentState.messages
     step |-> 0,                    \* super-steps (node executions) so far
     trace |-> <<>>,                \* nodes executed so far, as phases
     ncalls |-> 0,                  \* tool-call ids issued so far
     pending |-> {},                \* calls of the running ToolNode batch
     outcomes |-> <<>>,             \* outcome per call of the batch
     attempts |-> <<>>,             \* call ids the ToolNode has taken up
     model_failed |-> FALSE,        \* a model invocation of the run raised
     model_input |-> <<>>,          \* messages of the latest model invocation
     bound_tools |-> <<>>,          \* tools bound in that invocation
     intermediate_steps |-> <<>>,
     last_ai_message_content |-> NoneContent,
     extracted_text |-> Unbound,
     structured_email_data |-> NoEmail,
     error_content |-> "",
     message_to_send |-> NoEvent]

IdleStd ==
    [pc |-> "idle",
     invocations |-> 0,             \* model invocations begun so far
     model_input |-> <<>>,          \* messages of the model invocation
     bound_tools |-> <<>>,          \* tools bound in that invocation
     response |-> NoneContent,      \* response.content
     final_content |-> NoneContent,
     error_content |-> ""]

---------------------------------------------------------------------------
(* Structured output extraction (src/app/main.py, lines 150-184) *)

\* str.strip(): drop leading and trailing whitespace
Strip(t) ==
    LET S == {i \in 1 .. Len(t) : t[i] # WS}
    IN  IF S = {} THEN <<>> ELSE SubSeq(t, Min(S), Max(S))

\* position of the first token of t at or after position from that is in H;
\* Len(t) + 1 when there is none
FirstAt(t, H, from) ==
    LET S == {i \in from .. Len(t) : t[i] \in H}
    IN  IF S = {} THEN Len(t) + 1 ELSE Min(S)

\* re.search(hdr + "(.*?)(" + stops + "|$)", DOTALL | IGNORECASE).group(1)
LazyGroup(t, hdr, stops) ==
    LET h == FirstAt(t, hdr, 1)
    IN  SubSeq(t, h + 1, FirstAt(t, stops, h + 1) - 1)

HasHeader(t, hdr) == FirstAt(t, hdr, 1) <= Len(t)

\* the text taken from the last AI content (lines 151-156)
ExtractedText(c) ==
    Strip(IF c.kind = "str" THEN c.text
          ELSE IF c.kind = "list" /\ Len(c.blocks) > 0 /\ c.blocks[1].type = "text"
               THEN c.blocks[1].text
          ELSE <<>>)

\* a parse that takes a draft only when it has a subject line as well
ParseEmailNeedsSubject(t) ==
    IF HasHeader(t, BodyHdr) /\ HasHeader(t, SubjectHdr)
    THEN [set |-> TRUE,
          potential_contacts |->
              IF HasHeader(t, ContactsHdr)
              THEN Strip(LazyGroup(t, ContactsHdr, SubjectHdr \cup BodyHdr))
              ELSE <<>>,
          subject |-> Strip(LazyGroup(t, SubjectHdr, BodyHdr)),
          body |-> Strip(SubSeq(t, FirstAt(t, BodyHdr, 1) + 1, Len(t)))]
    ELSE NoEmail

\* a parse that cleans the markers out of the body
ParseEmailStripsMarkers(t) ==
    IF HasHeader(t, BodyHdr)
    THEN [set |-> TRUE,
          potential_contacts |->
              IF HasHeader(t, ContactsHdr)
              THEN Strip(LazyGroup(t, ContactsHdr, SubjectHdr \cup BodyHdr))
              ELSE <<>>,
          subject |->
              IF HasHeader(t, SubjectHdr)
              THEN Strip(LazyGroup(t, SubjectHdr, BodyHdr))
              ELSE <<>>,
          body |-> LET IsText(x) == x \notin McpMarkers
                   IN  SelectSeq(Strip(SubSeq(t, FirstAt(t, BodyHdr, 1) + 1, Len(t))),
                                 IsText)]
    ELSE NoEmail

\* lines 164-173: the three regular expressions; Body is mandatory
ParseEmail(t) ==
    IF HasHeader(t, BodyHdr)
    THEN [set |-> TRUE,
          potential_contacts |->
              IF HasHeader(t, ContactsHdr)
              THEN Strip(LazyGroup(t, ContactsHdr, SubjectHdr \cup BodyHdr))
              ELSE <<>>,
          subject |->
              IF HasHeader(t, SubjectHdr)
              THEN Strip(LazyGroup(t, SubjectHdr, BodyHdr))
              ELSE <<>>,
          body |-> Strip(SubSeq(t, FirstAt(t, BodyHdr, 1) + 1, Len(t)))]
    ELSE NoEmail

\* lines 150-184: extracted_text is assigned only when the content is truthy
ProcessFinalMessage(m) ==
    IF Truthy(m.last_ai_message_content)
    THEN The({ [m EXCEPT !.extracted_text = Bound(t),
                         !.structured_email_data =
                             IF t # <<>> THEN ParseEmail(t) ELSE NoEmail] :
               t \in {ExtractedText(m.last_ai_message_content)} })
    ELSE m

---------------------------------------------------------------------------
(* The collector's loop body (src/app/main.py, lines 122-144) *)

ToolCallStep(tc) ==
    [step_type |-> "ai_tool_call", tool_name |-> tc.name, content |-> NoneContent]
ThoughtStep(c) ==
    [step_type |-> "ai_thought", tool_name |-> "", content |-> c]
ToolResultStep(msg) ==
    [step_type |-> "tool_result", tool_name |-> msg.name, content |-> msg.content]

\* a collector that records the content of every AIMessage as a thought
CollectEventThoughtPerAI(m) ==
    LET latest_msg == LastMessage(m.messages)
    IN  IF latest_msg.type = "ai"
        THEN [m EXCEPT
                !.last_ai_message_content = latest_msg.content,
                !.intermediate_steps =
                    Append(@, ThoughtStep(latest_msg.content))
                        \o [i \in 1 .. Len(latest_msg.tool_calls) |->
                               ToolCallStep(latest_msg.tool_calls[i])]]
        ELSE IF latest_msg.type = "tool"
        THEN [m EXCEPT !.intermediate_steps = Append(@, ToolResultStep(latest_msg))]
        ELSE m

\* a collector that keeps the content of the first AIMessage it sees
CollectEventKeepsFirst(m) ==
    LET latest_msg == LastMessage(m.messages)
    IN  IF latest_msg.type = "ai"
        THEN [m EXCEPT
                !.last_ai_message_content =
                    IF @ = NoneContent THEN latest_msg.content ELSE @,
                !.intermediate_steps =
                    IF latest_msg.tool_calls # <<>>
                    THEN @ \o [i \in 1 .. Len(latest_msg.tool_calls) |->
                                  ToolCallStep(latest_msg.tool_calls[i])]
                    ELSE Append(@, ThoughtStep(latest_msg.content))]
        ELSE IF latest_msg.type = "tool"
        THEN [m EXCEPT !.intermediate_steps = Append(@, ToolResultStep(latest_msg))]
        ELSE m

\* one "values" event: only event["messages"][-1] is looked at
CollectEvent(m) ==
    LET latest_msg == LastMessage(m.messages)
    IN  IF latest_msg.type = "ai"
        THEN [m EXCEPT
                !.last_ai_message_content = latest_msg.content,
                !.intermediate_steps =
                    IF latest_msg.tool_calls # <<>>
                    THEN @ \o [i \in 1 .. Len(latest_msg.tool_calls) |->
                                  ToolCallStep(latest_msg.tool_calls[i])]
                    ELSE Append(@, ThoughtStep(latest_msg.content))]
        ELSE IF latest_msg.type = "tool"
        THEN [m EXCEPT !.intermediate_steps = Append(@, ToolResultStep(latest_msg))]
        ELSE m

---------------------------------------------------------------------------
(* The graph (src/app/agent/graph.py, lines 200-272) *)

\* the REASON/ACT cycle a run is in (1-based)
Cycle(m) == (m.step \div 2) + 1

\* the leading cycles, in which the environment is explored in full: any
\* batch size, any final content
Varied(m) == Cycle(m) <= MaxVariedCycles

\* cycles in which a tool call may fail: the leading ones and the last one
\* the recursion limit admits
MayFail(m) == Varied(m) \/ Cycle(m) = LastCycle

\* the batches of tool calls the model may ask for in the next AIMessage
CallBatches(m) ==
    { [i \in 1 .. n |-> [id |-> m.ncalls + i, name |-> ToolName]] :
        n \in (IF Varied(m) THEN 1 .. MaxCalls ELSE {1}) }

\* what bound_model.ainvoke may return (lines 226-237)
ModelResponses(m) ==
    { AIMessage(c, <<>>) : c \in (IF Varied(m) THEN FinalContents ELSE {PlainFinal}) }
        \cup { AIMessage(ToolTurnContent, b) : b \in CallBatches(m) }

\* an except branch that answers with a draft in the format asked for
RateLimitMessageAsDraft == AIMessage(PlainFinal, <<>>)

\* the except branch of reasoning_node (lines 238-249)
RateLimitMessage == AIMessage(StrContent(RateLimitText), <<>>)

\* langgraph.prebuilt.tools_condition on the state after reasoning_node
tools_condition(msgs) ==
    IF LastMessage(msgs).type = "ai" /\ LastMessage(msgs).tool_calls # <<>>
    THEN "tools" ELSE "END"

\* a tools node that hands its results back last call first
ToolNodeMessagesReversed(calls, outcomes) ==
    [i \in 1 .. Len(calls) |->
        ToolMessage(calls[Len(calls) + 1 - i], outcomes[Len(calls) + 1 - i])]

\* ToolNode(tools): one ToolMessage per call of the last AIMessage, in the
\* order of the calls, a failed call as a ToolMessage of status "error"
ToolNodeMessages(calls, outcomes) ==
    [i \in 1 .. Len(calls) |-> ToolMessage(calls[i], outcomes[i])]

\* a stream error that nothing catches: the task dies without an event
GraphRecursionErrorUncaught(m) ==
    [m EXCEPT !.status = "aborted", !.pc = "finished"]

\* GraphRecursionError out of astream, caught at line 209
GraphRecursionError(m) ==
    [m EXCEPT !.status = "aborted", !.pc = "send_error",
              !.error_content = "Error during MCP graph streaming: recursion limit"]

\* more work is scheduled after super-step number m.step: the limit check
StepLimitReached(m) == m.step >= RecursionLimit

---------------------------------------------------------------------------
(* After the stream: lines 147-207 up to the first send *)

EmailEvent(r, email) ==
    [NoEvent EXCEPT !.req = r, !.pipeline = "mcp", !.type = "mcp_final_email",
                    !.email = email]
ErrorEvent(r, pipe, src, detail) ==
    [NoEvent EXCEPT !.req = r, !.pipeline = pipe, !.type = "error",
                    !.source = src, !.detail = detail]
StepsEvent(r, steps) ==
    [NoEvent EXCEPT !.req = r, !.pipeline = "mcp",
                    !.type = "mcp_intermediate_steps", !.steps = steps]
StandardEmailEvent(r, c) ==
    [NoEvent EXCEPT !.req = r, !.pipeline = "standard",
                    !.type = "standard_final_email", !.content = c]

ParseFailed == "Could not parse structured email from final AI message."
NoDraft     == "MCP agent did not produce a final email draft text."

\* lines 186-196 up to the await: the result event is chosen; reading the
\* unassigned extracted_text at line 193 raises into the handler of line 209
PrepareResult(r, m) ==
    IF m.structured_email_data.set
    THEN [m EXCEPT !.pc = "send_result",
                   !.message_to_send = EmailEvent(r, m.structured_email_data)]
    ELSE IF ~ m.extracted_text.bound
    THEN [m EXCEPT !.pc = "send_error",
                   !.error_content = "Error during MCP graph streaming: extracted_text"]
    ELSE [m EXCEPT !.pc = "send_result",
                   !.message_to_send =
                       ErrorEvent(r, "mcp", "mcp",
                                  IF m.extracted_text.text # <<>>
                                  THEN ParseFailed ELSE NoDraft)]

\* the stream ended without an exception (line 147)
StreamFinished(r, m) ==
    The({ PrepareResult(r, m1) : m1 \in {ProcessFinalMessage(m)} })

\* a collector that sends its log as collected
StepsToSendUnpopped(m) == m.intermediate_steps

\* lines 199-203: the log that goes out, trailing duplicate thought removed
StepsToSend(m) ==
    LET s == m.intermediate_steps
    IN  IF /\ s[Len(s)].step_type = "ai_thought"
           /\ s[Len(s)].content = m.last_ai_message_content
        THEN SubSeq(s, 1, Len(s) - 1)
        ELSE s

---------------------------------------------------------------------------
(* Super-steps of the graph with the collector's loop body *)

\* the tools node returns its messages: the reducer appends them
ToolsSuperStep(m) ==
    [m EXCEPT
       !.messages = add_messages(@, ToolNodeMessages(LastMessage(m.messages).tool_calls,
                                                      m.outcomes)),
       !.step = @ + 1,
       !.trace = Append(@, "ACT"),
       !.pending = {},
       !.outcomes = <<>>]

\* a reasoning_node that hands the model the latest message only
InvokeModelLatestOnly(m) ==
    [m EXCEPT !.pc = "reason",
              !.model_input = <<SystemMessage(EXPLORIUM_SYSTEM_PROMPT),
                                LastMessage(m.messages)>>,
              !.bound_tools = tools.list]

\* reasoning_node up to its await (lines 216-236): the session's tools are
\* bound, and the model is invoked with the system prompt and the messages
\* of the state
InvokeModel(m) ==
    [m EXCEPT !.pc = "reason",
              !.model_input = <<SystemMessage(EXPLORIUM_SYSTEM_PROMPT)>> \o m.messages,
              !.bound_tools = tools.list]

\* the edge tools -> reasoning_node (line 269), under the recursion limit
RouteAfterTools(m) ==
    IF StepLimitReached(m) THEN GraphRecursionError(m)
    ELSE InvokeModel(m)

\* a tools node that lets the exception of a failed call escape
AfterToolsAbortOnError(m) ==
    IF \E i \in DOMAIN m.outcomes : m.outcomes[i] = "error"
    THEN [m EXCEPT !.status = "aborted", !.pc = "send_error", !.pending = {},
                   !.error_content = "Error during MCP graph streaming: tool"]
    ELSE The({ RouteAfterTools(m2) :
                 m2 \in { CollectEvent(m1) : m1 \in {ToolsSuperStep(m)} } })

\* the tools node has all its results: the super-step ends, the collector
\* sees its values, the next node is scheduled
AfterTools(m) ==
    The({ RouteAfterTools(m2) : m2 \in { CollectEvent(m1) : m1 \in {ToolsSuperStep(m)} } })

\* the tools node starts: every call of the batch is taken up once, all
\* of them before any result is awaited
StartToolNode(m) ==
    LET calls == LastMessage(m.messages).tool_calls
        idx   == 1 .. Len(calls)
    IN  [m EXCEPT !.pc = "act",
                  !.attempts = @ \o [i \in idx |-> calls[i].id],
                  !.pending = idx,
                  !.outcomes = [i \in idx |-> ""]]

\* reasoning_node returns ai: the reducer appends it
ReasonSuperStep(m, ai) ==
    [m EXCEPT
       !.messages = add_messages(@, <<ai>>),
       !.step = @ + 1,
       !.trace = Append(@, "REASON"),
       !.ncalls = @ + Len(ai.tool_calls)]

\* the conditional edge out of reasoning_node (lines 262-266), under the
\* recursion limit; END closes the stream
RouteAfterReason(r, m) ==
    IF tools_condition(m.messages) = "tools"
    THEN IF StepLimitReached(m) THEN GraphRecursionError(m)
         ELSE StartToolNode(m)
    ELSE StreamFinished(r, [m EXCEPT !.status = "done"])

\* reasoning_node returned ai: the super-step ends, the collector sees its
\* values, the edge is taken
AfterReason(r, m, ai) ==
    The({ RouteAfterReason(r, m2) :
            m2 \in { CollectEvent(m1) : m1 \in {ReasonSuperStep(m, ai)} } })

\* a reasoning_node without its except branch: the exception leaves the graph
ModelInvocationPropagates(r, m) ==
    [m EXCEPT !.model_failed = TRUE, !.status = "aborted", !.pc = "send_error",
              !.error_content = "Error during MCP graph streaming: model"]

\* bound_model.ainvoke raised: the except branch returns the apology as
\* the node's result (lines 238-249)
ModelInvocationFailed(r, m) ==
    AfterReason(r, [m EXCEPT !.model_failed = TRUE], RateLimitMessage)

---------------------------------------------------------------------------
(* Actions *)

Init ==
    /\ active_connections = <<Websocket>>
    /\ tools = LoadedTools
    /\ handler = "receiving"
    /\ connected = TRUE
    /\ inboundLeft = 1
    /\ nreq = 0
    /\ mcp = [r \in Requests |-> IdleRun]
    /\ std = [r \in Requests |-> IdleStd]
    /\ sent = <<>>

\* a dispatcher that takes the next frame only when the earlier runs are over
DispatchAfterRuns(r) ==
    /\ handler = "receiving"
    /\ connected
    /\ inboundLeft > 0
    /\ r = nreq + 1
    /\ \A q \in 1 .. nreq : mcp[q].pc = "finished" /\ std[q].pc = "finished"
    /\ inboundLeft' = inboundLeft - 1
    /\ nreq' = r
    /\ mcp' = [mcp EXCEPT ![r] =
                 [IdleRun EXCEPT !.pc = "start", !.status = "running",
                                 !.messages = <<HumanMessage(UserInput(r))>>]]
    /\ std' = [std EXCEPT ![r] = [IdleStd EXCEPT !.pc = "start"]]
    /\ UNCHANGED <<active_connections, tools, handler, connected, sent>>

\* a dispatcher that ends the tool-augmented runs of the earlier requests
\* when it takes a new one
DispatchCancelsEarlier(r) ==
    /\ handler = "receiving"
    /\ connected
    /\ inboundLeft > 0
    /\ r = nreq + 1
    /\ inboundLeft' = inboundLeft - 1
    /\ nreq' = r
    /\ mcp' = [q \in Requests |->
                 IF q = r
                 THEN [IdleRun EXCEPT !.pc = "start", !.status = "running",
                                      !.messages = <<HumanMessage(UserInput(r))>>]
                 ELSE IF mcp[q].pc = "idle" THEN mcp[q]
                 ELSE [mcp[q] EXCEPT !.pc = "finished"]]
    /\ std' = [std EXCEPT ![r] = [IdleStd EXCEPT !.pc = "start"]]
    /\ UNCHANGED <<active_connections, tools, handler, connected, sent>>

\* a dispatcher whose graph state lives as long as the connection: a run
\* starts from the transcript of the run before it
DispatchKeepsHistory(r) ==
    /\ handler = "receiving"
    /\ connected
    /\ inboundLeft > 0
    /\ r = nreq + 1
    /\ inboundLeft' = inboundLeft - 1
    /\ nreq' = r
    /\ mcp' = [mcp EXCEPT ![r] =
                 [IdleRun EXCEPT !.pc = "start", !.status = "running",
                                 !.messages =
                                     (IF r > 1 THEN mcp[r - 1].messages ELSE <<>>)
                                         \o <<HumanMessage(UserInput(r))>>]]
    /\ std' = [std EXCEPT ![r] = [IdleStd EXCEPT !.pc = "start"]]
    /\ UNCHANGED <<active_connections, tools, handler, connected, sent>>

\* websocket_endpoint, one turn of its loop with a usable frame
\* (src/app/main.py, lines 235-266): both tasks are created, none is awaited
Dispatch(r) ==
    /\ handler = "receiving"
    /\ connected
    /\ inboundLeft > 0
    /\ r = nreq + 1
    /\ inboundLeft' = inboundLeft - 1
    /\ nreq' = r
    /\ mcp' = [mcp EXCEPT ![r] =
                 [IdleRun EXCEPT !.pc = "start", !.status = "running",
                                 !.messages = <<HumanMessage(UserInput(r))>>]]
    /\ std' = [std EXCEPT ![r] = [IdleStd EXCEPT !.pc = "start"]]
    /\ UNCHANGED <<active_connections, tools, handler, connected, sent>>

\* a run that loads the tool list anew when it starts
McpStartReloadsTools(r) ==
    /\ mcp[r].pc = "start"
    /\ tools' = [tools EXCEPT !.loads = @ + 1]
    /\ mcp' = [mcp EXCEPT ![r] = InvokeModel(CollectEvent(mcp[r]))]
    /\ UNCHANGED <<active_connections, handler, connected, inboundLeft, nreq, std, sent>>

\* run_mcp_and_send_final up to the first model call: the stream opens, its
\* first value is the input state, reasoning_node awaits the model
McpStart(r) ==
    /\ mcp[r].pc = "start"
    /\ mcp' = [mcp EXCEPT ![r] = InvokeModel(CollectEvent(mcp[r]))]
    /\ UNCHANGED <<active_connections, tools, handler, connected, inboundLeft, nreq, std, sent>>

\* reasoning_node: the model answers, or the call raises; then the
\* conditional edge and the collector's loop body
Reason(r) ==
    /\ mcp[r].pc = "reason"
    /\ \/ \E ai \in ModelResponses(mcp[r]) :
              mcp' = [mcp EXCEPT ![r] = AfterReason(r, mcp[r], ai)]
       \/ mcp' = [mcp EXCEPT ![r] = ModelInvocationFailed(r, mcp[r])]
    /\ UNCHANGED <<active_connections, tools, handler, connected, inboundLeft, nreq, std, sent>>

\* a tools node that ends with the first call of its batch to return
ToolReturnFirstEnds(r) ==
    /\ mcp[r].pc = "act"
    /\ \E i \in mcp[r].pending :
       \E o \in (IF MayFail(mcp[r]) THEN {"success", "error"} ELSE {"success"}) :
           LET m1 == [mcp[r] EXCEPT !.pending = @ \ {i}, !.outcomes[i] = o]
           IN  mcp' = [mcp EXCEPT ![r] = AfterTools(m1)]
    /\ UNCHANGED <<active_connections, tools, handler, connected, inboundLeft, nreq, std, sent>>

\* one tool call of the running batch returns or raises; the last one to
\* do so ends the tools node
ToolReturn(r) ==
    /\ mcp[r].pc = "act"
    /\ \E i \in mcp[r].pending :
       \E o \in (IF MayFail(mcp[r]) THEN {"success", "error"} ELSE {"success"}) :
           LET m1 == [mcp[r] EXCEPT !.pending = @ \ {i}, !.outcomes[i] = o]
           IN  mcp' = [mcp EXCEPT ![r] =
                         IF m1.pending = {} THEN AfterTools(m1) ELSE m1]
    /\ UNCHANGED <<active_connections, tools, handler, connected, inboundLeft, nreq, std, sent>>

\* a collector that sends the step log ahead of the result event
SendStepsFirst(r) ==
    /\ mcp[r].pc = "send_result"
    /\ sent' = sent \o <<StepsEvent(r, StepsToSend(mcp[r])), mcp[r].message_to_send>>
    /\ mcp' = [mcp EXCEPT ![r] =
                 [mcp[r] EXCEPT !.pc = "finished", !.message_to_send = NoEvent,
                                !.intermediate_steps = StepsToSend(mcp[r])]]
    /\ UNCHANGED <<active_connections, tools, handler, connected, inboundLeft, nreq, std>>

\* lines 187-199: the result event is sent, then the step log is looked at
SendResult(r) ==
    /\ mcp[r].pc = "send_result"
    /\ IF connected
       THEN /\ sent' = Append(sent, mcp[r].message_to_send)
            /\ mcp' = [mcp EXCEPT ![r] =
                         IF mcp[r].intermediate_steps # <<>>
                         THEN [mcp[r] EXCEPT
                                 !.pc = "send_steps",
                                 !.intermediate_steps = StepsToSend(mcp[r]),
                                 !.message_to_send = StepsEvent(r, StepsToSend(mcp[r]))]
                         ELSE [mcp[r] EXCEPT !.pc = "finished",
                                             !.message_to_send = NoEvent]]
       ELSE /\ sent' = sent
            /\ mcp' = [mcp EXCEPT ![r] =
                         [mcp[r] EXCEPT
                            !.pc = "send_error",
                            !.error_content = "Error during MCP graph streaming: send"]]
    /\ UNCHANGED <<active_connections, tools, handler, connected, inboundLeft, nreq, std>>

\* a collector whose step log cannot be serialised: json.dumps raises on
\* an open connection
SendStepsRaises(r) ==
    /\ mcp[r].pc = "send_steps"
    /\ sent' = sent
    /\ mcp' = [mcp EXCEPT ![r] =
                 [mcp[r] EXCEPT
                    !.pc = "send_error",
                    !.error_content = "Error during MCP graph streaming: steps"]]
    /\ UNCHANGED <<active_connections, tools, handler, connected, inboundLeft, nreq, std>>

\* lines 203-205: the step log is sent
SendSteps(r) ==
    /\ mcp[r].pc = "send_steps"
    /\ IF connected
       THEN /\ sent' = Append(sent, mcp[r].message_to_send)
            /\ mcp' = [mcp EXCEPT ![r] =
                         [mcp[r] EXCEPT !.pc = "finished", !.message_to_send = NoEvent]]
       ELSE /\ sent' = sent
            /\ mcp' = [mcp EXCEPT ![r] =
                         [mcp[r] EXCEPT
                            !.pc = "send_error",
                            !.error_content = "Error during MCP graph streaming: send"]]
    /\ UNCHANGED <<active_connections, tools, handler, connected, inboundLeft, nreq, std>>

\* an error path whose own send failure leaves the task as an exception
SendErrorPropagates(r) ==
    /\ mcp[r].pc = "send_error"
    /\ sent' = IF connected
               THEN Append(sent, ErrorEvent(r, "mcp", "mcp", mcp[r].error_content))
               ELSE sent
    /\ mcp' = [mcp EXCEPT ![r] =
                 [mcp[r] EXCEPT !.pc = IF connected THEN "finished" ELSE "crashed",
                                !.message_to_send = NoEvent]]
    /\ UNCHANGED <<active_connections, tools, handler, connected, inboundLeft, nreq, std>>

\* an error path that also cancels the sibling task of the request
SendErrorCancelsSibling(r) ==
    /\ mcp[r].pc = "send_error"
    /\ sent' = IF connected
               THEN Append(sent, ErrorEvent(r, "mcp", "mcp", mcp[r].error_content))
               ELSE sent
    /\ mcp' = [mcp EXCEPT ![r] =
                 [mcp[r] EXCEPT !.pc = "finished", !.message_to_send = NoEvent]]
    /\ std' = [std EXCEPT ![r].pc = IF @ = "idle" THEN @ ELSE "finished"]
    /\ UNCHANGED <<active_connections, tools, handler, connected, inboundLeft, nreq>>

\* lines 209-216: the boundary handler sends one error event; a failure of
\* that send is swallowed
SendError(r) ==
    /\ mcp[r].pc = "send_error"
    /\ sent' = IF connected
               THEN Append(sent, ErrorEvent(r, "mcp", "mcp", mcp[r].error_content))
               ELSE sent
    /\ mcp' = [mcp EXCEPT ![r] =
                 [mcp[r] EXCEPT !.pc = "finished", !.message_to_send = NoEvent]]
    /\ UNCHANGED <<active_connections, tools, handler, connected, inboundLeft, nreq, std>>

McpStep(r) ==
    McpStart(r) \/ Reason(r) \/ ToolReturn(r) \/ SendResult(r) \/ SendSteps(r)
        \/ SendError(r)

---------------------------------------------------------------------------
(* The single-shot pipeline (src/app/agent/standard_agent.py, 119-201) *)

StdPlaceholder == StrContent(<<"Standard agent produced no content.">>)

\* what llm.ainvoke may return as response.content
StdContents == {StrContent(<<"Subject:", WS, "Hi", WS, "there">>), StrContent(<<>>)}

\* lines 135-176: the task runs up to the model call
StdStart(r) ==
    /\ std[r].pc = "start"
    /\ std' = [std EXCEPT ![r] =
                 [std[r] EXCEPT
                    !.pc = "invoke",
                    !.invocations = @ + 1,
                    !.model_input = <<HumanMessage(FormattedContent(UserInput(r)))>>,
                    !.bound_tools = <<>>]]
    /\ UNCHANGED <<active_connections, tools, handler, connected, inboundLeft, nreq, mcp, sent>>

\* a single-shot run that passes on whatever content the model returned
StdModelReturnNoPlaceholder(r) ==
    /\ std[r].pc = "invoke"
    /\ \/ \E c \in StdContents :
              std' = [std EXCEPT ![r] =
                        [std[r] EXCEPT !.pc = "send_final",
                                       !.response = c,
                                       !.final_content = c]]
       \/ std' = [std EXCEPT ![r] =
                    [std[r] EXCEPT
                       !.pc = "send_error",
                       !.error_content = "Error in Standard Agent Generation: model"]]
    /\ UNCHANGED <<active_connections, tools, handler, connected, inboundLeft, nreq, mcp, sent>>

\* lines 176-186 and 188-197: the model call returns or raises
StdModelReturn(r) ==
    /\ std[r].pc = "invoke"
    /\ \/ \E c \in StdContents :
              std' = [std EXCEPT ![r] =
                        [std[r] EXCEPT !.pc = "send_final",
                                       !.response = c,
                                       !.final_content =
                                           IF Truthy(c) THEN c ELSE StdPlaceholder]]
       \/ std' = [std EXCEPT ![r] =
                    [std[r] EXCEPT
                       !.pc = "send_error",
                       !.error_content = "Error in Standard Agent Generation: model"]]
    /\ UNCHANGED <<active_connections, tools, handler, connected, inboundLeft, nreq, mcp, sent>>

\* line 186: the final email is sent
StdSendFinal(r) ==
    /\ std[r].pc = "send_final"
    /\ IF connected
       THEN /\ sent' = Append(sent, StandardEmailEvent(r, std[r].final_content))
            /\ std' = [std EXCEPT ![r].pc = "finished"]
       ELSE /\ sent' = sent
            /\ std' = [std EXCEPT ![r] =
                         [std[r] EXCEPT
                            !.pc = "send_error",
                            !.error_content = "Error in Standard Agent Generation: send"]]
    /\ UNCHANGED <<active_connections, tools, handler, connected, inboundLeft, nreq, mcp>>

\* lines 198-201: the error event is sent; a failure of that send is swallowed
StdSendError(r) ==
    /\ std[r].pc = "send_error"
    /\ sent' = IF connected
               THEN Append(sent, ErrorEvent(r, "standard", "standard",
                                            std[r].error_content))
               ELSE sent
    /\ std' = [std EXCEPT ![r].pc = "finished"]
    /\ UNCHANGED <<active_connections, tools, handler, connected, inboundLeft, nreq, mcp>>

StdStep(r) ==
    StdStart(r) \/ StdModelReturn(r) \/ StdSendFinal(r) \/ StdSendError(r)

---------------------------------------------------------------------------

Next ==
    \E r \in Requests : Dispatch(r) \/ McpStep(r) \/ StdStep(r)

Spec == Init /\ [][Next]_vars

\* the event loop runs every task that is ready, and every model or tool
\* invocation returns or raises
FairSpec ==
    Spec /\ \A r \in Requests : WF_vars(McpStep(r)) /\ WF_vars(StdStep(r))

---------------------------------------------------------------------------
(* The collector on final answers of any text: the model's first response
   is a final answer, a str drawn from the texts of up to MaxSections
   sections *)

SectionHeaders == {"Potential Contacts:", "Subject:", "Body:", "body:"}

SectionPayloads ==
    { <<>>,
      <<WS, "A", WS>>,
      <<WS, "hello", "<<<mcp_data>>>", "X", "<<<end_mcp_data>>>">> }

\* a header, or none, and what follows it
Sections ==
    SectionPayloads \cup { <<h>> \o p : h \in SectionHeaders, p \in SectionPayloads }

RECURSIVE TextsOf(_)
TextsOf(n) ==
    IF n = 0 THEN {<<>>}
    ELSE TextsOf(n - 1) \cup { t \o sec : t \in TextsOf(n - 1), sec \in Sections }

FinalTexts == TextsOf(MaxSections)

\* reasoning_node: the model answers at once with a final text
FinalAnswer(r) ==
    /\ mcp[r].pc = "reason"
    /\ \E t \in FinalTexts :
           mcp' = [mcp EXCEPT ![r] =
                     AfterReason(r, mcp[r], AIMessage(StrContent(t), <<>>))]
    /\ UNCHANGED <<active_connections, tools, handler, connected, inboundLeft, nreq, std, sent>>

ExtractNext ==
    \E r \in Requests :
        Dispatch(r) \/ McpStart(r) \/ FinalAnswer(r) \/ SendResult(r)
            \/ SendSteps(r) \/ SendError(r)

ExtractSpec == Init /\ [][ExtractNext]_vars

---------------------------------------------------------------------------
(* The streaming single-shot function, run as the single-shot task of a
   request.  The module src/app/agent/standard_agent.py defines
   stream_standard_llm_response three times (lines 13, 204 and 214); the
   definition in force is the last one, whose body is pass *)

\* lines 214-216: the coroutine starts and returns, nothing is sent
stream_standard_llm_response(r) ==
    /\ std[r].pc = "start"
    /\ std' = [std EXCEPT ![r].pc = "finished"]
    /\ UNCHANGED <<active_connections, tools, handler, connected, inboundLeft, nreq, mcp, sent>>

StreamNext ==
    \E r \in Requests :
        Dispatch(r) \/ McpStep(r) \/ stream_standard_llm_response(r)

StreamSpec == Init /\ [][StreamNext]_vars

---------------------------------------------------------------------------
(* The connection: several inbound frames, a client that may leave, and
   runs kept short (the model asks for at most one tool call, in its first
   response only) *)

ConnInit ==
    /\ active_connections = <<>>
    /\ tools = NoTools
    /\ handler = "accepting"
    /\ connected = FALSE
    /\ inboundLeft = MaxRequests
    /\ nreq = 0
    /\ mcp = [r \in Requests |-> IdleRun]
    /\ std = [r \in Requests |-> IdleStd]
    /\ sent = <<>>

\* manager.connect (src/app/main.py, lines 36-44 and 223): the websocket is
\* accepted and listed; if accept raises, the endpoint ends before its try
Connect ==
    /\ handler = "accepting"
    /\ \/ /\ connected' = TRUE
          /\ active_connections' = Append(active_connections, Websocket)
          /\ handler' = "connecting"
       \/ /\ connected' = connected
          /\ active_connections' = active_connections
          /\ handler' = "refused"
    /\ UNCHANGED <<tools, inboundLeft, nreq, mcp, std, sent>>

\* create_explorium_langgraph, entered once by websocket_endpoint before
\* its receive loop (src/app/main.py, line 229): get_tools fills the tool
\* list (src/app/agent/graph.py, line 176), or raises, and then the handler
\* of main.py line 283 ends the endpoint
LoadTools ==
    /\ handler = "connecting"
    /\ connected
    /\ \/ /\ tools' = [loads |-> tools.loads + 1, list |-> McpServerTools]
          /\ handler' = "receiving"
          /\ connected' = connected
       \/ /\ tools' = tools
          /\ handler' = "setup_failed"
          /\ connected' = FALSE
    /\ active_connections' =
           IF handler' = "setup_failed"
           THEN DisconnectIfListed(active_connections, Websocket)
           ELSE active_connections
    /\ UNCHANGED <<inboundLeft, nreq, mcp, std, sent>>

\* lines 238-251: a frame that is not JSON, has no "message" or an empty
\* one is skipped
SkipFrame ==
    /\ handler = "receiving"
    /\ connected
    /\ inboundLeft > 0
    /\ inboundLeft' = inboundLeft - 1
    /\ UNCHANGED <<active_connections, tools, handler, connected, nreq, mcp, std, sent>>

\* line 255: a frame whose "message" is neither text nor empty (an object,
\* say) makes HumanMessage raise outside the try of line 260; the handler
\* of line 283 ends the endpoint, and the server closes the socket
BadMessageFrame ==
    /\ handler = "receiving"
    /\ connected
    /\ inboundLeft > 0
    /\ inboundLeft' = inboundLeft - 1
    /\ handler' = "failed"
    /\ connected' = FALSE
    /\ active_connections' = DisconnectIfListed(active_connections, Websocket)
    /\ UNCHANGED <<tools, nreq, mcp, std, sent>>

\* a handler that leaves the websocket listed when the client leaves
ClientDisconnectKeepsListed ==
    /\ handler = "receiving"
    /\ connected
    /\ handler' = "exited"
    /\ connected' = FALSE
    /\ UNCHANGED <<active_connections, tools, inboundLeft, nreq, mcp, std, sent>>

\* lines 280-281: the client leaves; receive_text raises WebSocketDisconnect,
\* manager.disconnect removes the websocket (list.remove raises when it is
\* not listed) and the endpoint ends.  The tasks it created are left alone.
ClientDisconnect ==
    /\ handler = "receiving"
    /\ connected
    /\ IF Listed(active_connections, Websocket)
       THEN /\ handler' = "exited"
            /\ active_connections' = ListRemove(active_connections, Websocket)
       ELSE /\ handler' = "remove_failed"
            /\ active_connections' = active_connections
    /\ connected' = FALSE
    /\ UNCHANGED <<tools, inboundLeft, nreq, mcp, std, sent>>

\* what the model returns in a short run
BriefResponses(m) ==
    {AIMessage(PlainFinal, <<>>)}
        \cup (IF Cycle(m) = 1
              THEN {AIMessage(ToolTurnContent,
                              <<[id |-> m.ncalls + 1, name |-> ToolName]>>)}
              ELSE {})

\* reasoning_node in a short run
BriefReason(r) ==
    /\ mcp[r].pc = "reason"
    /\ \E ai \in BriefResponses(mcp[r]) :
           mcp' = [mcp EXCEPT ![r] = AfterReason(r, mcp[r], ai)]
    /\ UNCHANGED <<active_connections, tools, handler, connected, inboundLeft, nreq, std, sent>>

ConnNext ==
    \/ Connect
    \/ LoadTools
    \/ SkipFrame
    \/ BadMessageFrame
    \/ ClientDisconnect
    \/ \E r \in Requests :
           \/ Dispatch(r)
           \/ McpStart(r) \/ BriefReason(r) \/ ToolReturn(r)
           \/ SendResult(r) \/ SendSteps(r) \/ SendError(r)
           \/ StdStep(r)

ConnSpec == ConnInit /\ [][ConnNext]_vars

---------------------------------------------------------------------------
(* One request in full variety on a connection the client may leave at
   any moment *)

LossNext == ClientDisconnect \/ Next

LossSpec == Init /\ [][LossNext]_vars

---------------------------------------------------------------------------
(* Properties of the reasoning loop *)

IsAI(msg) == msg.type = "ai"

\* the AIMessages of a transcript, in order
AIMessages(msgs) == SelectSeq(msgs, IsAI)

\* REASON phases among the first i phases of a trace
ReasonsUpTo(t, i) == Cardinality({j \in 1 .. i : t[j] = "REASON"})

\* the graph of run r has stopped, by reaching END or by an exception
LoopEnded(r) == mcp[r].status \in {"done", "aborted"}

\* the run took every super-step the recursion limit admits and the model
\* asked for tools in every answer
LimitHit(r) ==
    /\ mcp[r].step = RecursionLimit
    /\ LoopEnded(r)
    /\ \A i \in 1 .. Len(mcp[r].messages) :
           IsAI(mcp[r].messages[i]) => mcp[r].messages[i].tool_calls # <<>>

\* events of one pipeline of request r, in the order they were sent
EventsOf(r, pipe) ==
    LET Mine(e) == e.req = r /\ e.pipeline = pipe
    IN  SelectSeq(sent, Mine)

\* C1: in every run REASON and ACT alternate strictly, starting with REASON:
\* ACT is entered only directly after a REASON whose AIMessage carries a tool
\* call, every ACT is followed by a REASON (no run stops with ACT as its
\* last phase), no two phases of one kind are consecutive, and a run whose
\* first AIMessage has no tool calls ends after one REASON and no ACT.
C1_StrictAlternation ==
    \A r \in Requests :
        LET t   == mcp[r].trace
            ais == AIMessages(mcp[r].messages)
        IN  /\ t # <<>> => t[1] = "REASON"
            /\ \A i \in 1 .. Len(t) - 1 : t[i] # t[i + 1]
            /\ \A i \in 1 .. Len(t) :
                   t[i] = "ACT" =>
                       /\ i > 1
                       /\ t[i - 1] = "REASON"
                       /\ ais[ReasonsUpTo(t, i - 1)].tool_calls # <<>>
            /\ LoopEnded(r) => t[Len(t)] = "REASON"
            /\ (LoopEnded(r) /\ ais[1].tool_calls = <<>>) => t = <<"REASON">>

\* C2: the ToolMessages of an ACT phase are exactly one per tool call of the
\* AIMessage right before them, carry the ids of the calls in the order the
\* calls were issued, and nothing else stands between that AIMessage and
\* the next one.
C2_ResultsMatchCalls ==
    \A r \in Requests :
        LET msgs == mcp[r].messages
        IN  \A i \in 1 .. Len(msgs) :
                /\ (IsAI(msgs[i]) /\ i < Len(msgs)) =>
                       LET calls == msgs[i].tool_calls
                           n     == Len(calls)
                       IN  /\ n > 0
                           /\ i + n <= Len(msgs)
                           /\ \A j \in 1 .. n :
                                  /\ msgs[i + j].type = "tool"
                                  /\ msgs[i + j].tool_call_id = calls[j].id
                                  /\ msgs[i + j].name = calls[j].name
                           /\ i + n < Len(msgs) => IsAI(msgs[i + n + 1])
                /\ msgs[i].type = "tool" => i > 2
                /\ msgs[i].type = "human" => i = 1

\* an ACT phase answered a batch of two calls and the next AIMessage is in
C2_Witness ==
    \E r \in Requests :
        \E i \in 1 .. Len(mcp[r].messages) :
            /\ IsAI(mcp[r].messages[i])
            /\ Len(mcp[r].messages[i].tool_calls) = 2
            /\ i + 3 <= Len(mcp[r].messages)
            /\ IsAI(mcp[r].messages[i + 3])
            /\ mcp[r].messages[i + 1].tool_call_id < mcp[r].messages[i + 2].tool_call_id

\* C3: a loop cut by its step limit while the model keeps asking for tools
\* ends in DONE as a truncated run, after exactly as many REASON phases as
\* the limit has cycles, and the text of its last AIMessage is the terminal
\* text the collector extracts from.
C3_TruncatedCompletion ==
    \A r \in Requests :
        LimitHit(r) =>
            LET msgs == mcp[r].messages
            IN  /\ ReasonsUpTo(mcp[r].trace, Len(mcp[r].trace)) = LastCycle
                /\ mcp[r].status = "done"
                /\ mcp[r].extracted_text =
                       Bound(ExtractedText(msgs[LastAIIndex(msgs)].content))

\* C4: reaching the step limit is no error: the collector treats the run
\* like any completed one (extraction, result event, then the step log) and
\* sends no error event on account of the limit.
C4_LimitIsNoError ==
    \A r \in Requests :
        (LimitHit(r) /\ mcp[r].pc = "finished") =>
            LET ev == EventsOf(r, "mcp")
            IN  /\ Len(ev) = 2
                /\ ev[1].type = "mcp_final_email"
                       \/ (ev[1].type = "error" /\ ev[1].detail \in {ParseFailed, NoDraft})
                /\ ev[2].type = "mcp_intermediate_steps"

\* a model invocation of run r raised and the run got past its handling
C5_Recovered(r) ==
    /\ LastMessage(mcp[r].messages) = RateLimitMessage
    /\ mcp[r].status = "done"
    /\ mcp[r].pc \notin {"start", "reason", "act"}
    /\ mcp[r].trace[Len(mcp[r].trace)] = "REASON"

\* C5: a model invocation that raises in a REASON phase does not leave the
\* loop as an exception: the apology AIMessage, without tool calls, is
\* appended as the last message, the graph goes straight to END with no
\* further REASON or ACT phase, and every message appended before stays.
C5_ModelFailureRecovered ==
    /\ [](\A r \in Requests : mcp[r].model_failed => C5_Recovered(r))
    /\ [][\A r \in Requests :
            /\ (~ mcp[r].model_failed /\ mcp'[r].model_failed) =>
                   /\ mcp'[r].messages = Append(mcp[r].messages, RateLimitMessage)
                   /\ mcp'[r].trace = Append(mcp[r].trace, "REASON")
            /\ mcp[r].model_failed =>
                   /\ mcp'[r].messages = mcp[r].messages
                   /\ mcp'[r].trace = mcp[r].trace]_vars

\* the model raised in a later cycle, after tool results were appended, and
\* the run went on to the end of its collector
C5_Witness ==
    \E r \in Requests :
        /\ mcp[r].model_failed
        /\ Len(mcp[r].messages) > 3
        /\ mcp[r].pc = "finished"

\* run r ends an ACT phase in this step
ActCompletes(r) ==
    /\ mcp[r].pc = "act"
    /\ mcp'[r].pc # "act"

\* the run as it would leave the ACT phase it is in, had every call of the
\* batch succeeded
AllSucceeded(m) ==
    AfterTools([m EXCEPT !.pending = {},
                         !.outcomes = [i \in DOMAIN m.outcomes |-> "success"]])

ResultTypes == {"mcp_final_email", "error"}

\* C7: on the channel the result event of a tool-augmented run
\* (mcp_final_email or error) comes strictly before the step log of the same
\* run; a step log is never the first event of its run.
C7_ResultBeforeSteps ==
    \A j \in 1 .. Len(sent) :
        sent[j].type = "mcp_intermediate_steps" =>
            \E i \in 1 .. j - 1 :
                /\ sent[i].req = sent[j].req
                /\ sent[i].pipeline = "mcp"
                /\ sent[i].type \in ResultTypes

\* a run sent an error as its result and its step log after it
C7_Witness ==
    \E r \in Requests :
        /\ Len(EventsOf(r, "mcp")) = 2
        /\ EventsOf(r, "mcp")[1].type = "error"
        /\ EventsOf(r, "mcp")[2].type = "mcp_intermediate_steps"
        /\ EventsOf(r, "mcp")[2].steps # <<>>

\* C8: every run whose loop reached DONE, whatever its terminal text, sends
\* exactly one result event (mcp_final_email if extraction succeeded, else
\* an error with source mcp) and then exactly one step log.
C8_DoneEmitsResultThenSteps ==
    \A r \in Requests :
        (mcp[r].status = "done" /\ mcp[r].pc = "finished") =>
            LET ev == EventsOf(r, "mcp")
            IN  /\ Len(ev) = 2
                /\ IF mcp[r].structured_email_data.set
                   THEN ev[1].type = "mcp_final_email"
                   ELSE ev[1].type = "error" /\ ev[1].source = "mcp"
                /\ ev[2].type = "mcp_intermediate_steps"

TerminalTypes == {"mcp_final_email", "standard_final_email", "error"}

\* pipeline pipe of request r has sent a terminal event
HasTerminal(r, pipe) ==
    \E i \in 1 .. Len(EventsOf(r, pipe)) : EventsOf(r, pipe)[i].type \in TerminalTypes

\* C9: while the connection stays open, every dispatched request leads to
\* a terminal event of each of its two pipelines.
C9_TerminalEventPerPipeline ==
    \A r \in Requests :
        (nreq >= r) ~>
            (~ connected \/ (HasTerminal(r, "mcp") /\ HasTerminal(r, "standard")))

\* both pipelines of a request have sent their terminal events
C9_Witness ==
    \E r \in Requests :
        /\ HasTerminal(r, "mcp")
        /\ HasTerminal(r, "standard")
        /\ mcp[r].pc = "finished"
        /\ std[r].pc = "finished"

\* the events a pipeline can have sent, given the state of its own run alone
OwnEvents(r) ==
    { EmailEvent(r, mcp[r].structured_email_data),
      ErrorEvent(r, "mcp", "mcp", ParseFailed),
      ErrorEvent(r, "mcp", "mcp", NoDraft),
      ErrorEvent(r, "mcp", "mcp", mcp[r].error_content),
      StepsEvent(r, mcp[r].intermediate_steps),
      StandardEmailEvent(r, std[r].final_content),
      ErrorEvent(r, "standard", "standard", std[r].error_content) }

\* C10: the two runs of a request are independent: a step of one run leaves
\* the other run and the other run's events as they are, a run that has not
\* finished can always take its next step whatever happened to the other,
\* and what a run sends is decided by that run alone.
C10_PipelinesIndependent ==
    /\ [](\A r \in Requests :
            /\ std[r].pc \notin {"idle", "finished"} => ENABLED StdStep(r)
            /\ mcp[r].pc \notin {"idle", "finished"} => ENABLED McpStep(r)
            /\ \A i \in 1 .. Len(sent) : sent[i].req = r => sent[i] \in OwnEvents(r))
    /\ [][\A r \in Requests :
            /\ (mcp[r].pc # "idle" /\ mcp'[r] # mcp[r]) =>
                   /\ std' = std
                   /\ EventsOf(r, "standard")' = EventsOf(r, "standard")
            /\ (std[r].pc # "idle" /\ std'[r] # std[r]) =>
                   /\ mcp' = mcp
                   /\ EventsOf(r, "mcp")' = EventsOf(r, "mcp")]_vars

\* the tool-augmented run ended in an exception, and the single-shot run
\* of the same request sent its email after that
C10_Witness ==
    \E r \in Requests :
        /\ mcp[r].status = "aborted"
        /\ mcp[r].pc = "finished"
        /\ sent # <<>>
        /\ sent[Len(sent)] = StandardEmailEvent(r, std[r].final_content)
        /\ std[r].pc = "finished"

---------------------------------------------------------------------------
(* Properties of the intermediate-step log *)

\* the steps events sent so far
StepsEvents == {i \in 1 .. Len(sent) : sent[i].type = "mcp_intermediate_steps"}

\* C14: the log carried by an mcp_intermediate_steps event never ends with
\* a thought step whose content is the final content of the run or whose
\* text is the run's terminal text, whatever the shape of that content.
C14_NoTrailingDuplicateThought ==
    \A i \in StepsEvents :
        LET s == sent[i].steps
            final == LastMessage(mcp[sent[i].req].messages).content
        IN  s # <<>> =>
                ~ /\ s[Len(s)].step_type = "ai_thought"
                  /\ \/ s[Len(s)].content = final
                     \/ ExtractedText(s[Len(s)].content) = ExtractedText(final)

\* a log that held tool steps and the final thought was sent
C14_Witness ==
    \E i \in StepsEvents :
        /\ sent[i].steps # <<>>
        /\ LastMessage(mcp[sent[i].req].messages).type = "ai"
        /\ mcp[sent[i].req].trace[Len(mcp[sent[i].req].trace)] = "REASON"
        /\ Len(mcp[sent[i].req].trace) >= 3

\* the tool steps a transcript calls for: one ai_tool_call step per call of
\* every AIMessage, one tool_result step per ToolMessage, in transcript order
RECURSIVE ToolStepsOf(_)
ToolStepsOf(msgs) ==
    IF msgs = <<>> THEN <<>>
    ELSE LET m == msgs[Len(msgs)]
             before == ToolStepsOf(SubSeq(msgs, 1, Len(msgs) - 1))
         IN  IF m.type = "ai"
             THEN before \o [k \in 1 .. Len(m.tool_calls) |-> ToolCallStep(m.tool_calls[k])]
             ELSE IF m.type = "tool" THEN Append(before, ToolResultStep(m))
             ELSE before

IsToolStep(st) == st.step_type \in {"ai_tool_call", "tool_result"}

\* C15: the log that is sent holds, in transcript order, one ai_tool_call
\* step for every tool call of every AIMessage and one tool_result step for
\* every ToolMessage of the transcript, batches of several results included.
C15_StepLogComplete ==
    \A i \in StepsEvents :
        SelectSeq(sent[i].steps, IsToolStep) = ToolStepsOf(mcp[sent[i].req].messages)

---------------------------------------------------------------------------
(* Properties of the structured output extraction *)

\* the runs whose graph ended at END and whose collector has finished
ExtractedRuns == {r \in Requests : mcp[r].status = "done" /\ mcp[r].pc = "finished"}

\* the terminal text of such a run: the str content of its last AIMessage
TerminalText(r) == LastMessage(mcp[r].messages).content.text

EmailEventsOf(r) ==
    {i \in 1 .. Len(sent) : sent[i].req = r /\ sent[i].type = "mcp_final_email"}

McpErrorsOf(r) ==
    {i \in 1 .. Len(sent) :
        sent[i].req = r /\ sent[i].type = "error" /\ sent[i].source = "mcp"}

HeaderIn(t, hdr) == \E k \in 1 .. Len(t) : t[k] \in hdr

\* C16: a finished run sends an mcp_final_email exactly when its terminal
\* text holds a body header, in either case of letters and whether or not
\* the other two headers occur; without a body header no structured result
\* exists, no mcp_final_email is sent and an error event of source mcp is.
C16_FailsExactlyWithoutBody ==
    \A r \in ExtractedRuns :
        IF HeaderIn(TerminalText(r), BodyHdr)
        THEN /\ mcp[r].structured_email_data.set
             /\ Cardinality(EmailEventsOf(r)) = 1
             /\ McpErrorsOf(r) = {}
        ELSE /\ ~ mcp[r].structured_email_data.set
             /\ EmailEventsOf(r) = {}
             /\ Cardinality(McpErrorsOf(r)) = 1

\* a text with a lower-case body header and neither of the other headers
\* was extracted and sent
C16_Witness ==
    \E r \in ExtractedRuns :
        /\ HeaderIn(TerminalText(r), {"body:"})
        /\ ~ HeaderIn(TerminalText(r), ContactsHdr \cup SubjectHdr \cup {"Body:"})
        /\ EmailEventsOf(r) # {}

\* the section of header hdr as the specification cuts it: from the first
\* hdr to the next header of any of the three kinds, or to the end, trimmed
SectionUpToNextHeader(t, hdr) ==
    IF HeaderIn(t, hdr)
    THEN LazyGroup(Strip(t), hdr, ContactsHdr \cup SubjectHdr \cup BodyHdr)
    ELSE <<>>

\* C17: for every terminal text with a body header, in whatever order its
\* headers occur, each field of the email that is sent is the text between
\* its header and the next header of any kind (or the end), trimmed.
C17_SectionsEndAtNextHeader ==
    \A r \in ExtractedRuns :
        \A i \in EmailEventsOf(r) :
            LET t == TerminalText(r)
            IN  /\ sent[i].email.potential_contacts =
                       Strip(SectionUpToNextHeader(t, ContactsHdr))
                /\ sent[i].email.subject = Strip(SectionUpToNextHeader(t, SubjectHdr))
                /\ sent[i].email.body = Strip(SectionUpToNextHeader(t, BodyHdr))

\* the tokens of the first body section of t, before trimming
BodySection(t) == LazyGroup(t, BodyHdr, ContactsHdr \cup SubjectHdr \cup BodyHdr)

\* whitespace tokens at the head of a text
LeadingWS(t) ==
    LET S == {k \in 1 .. Len(t) : t[k] # WS}
    IN  IF S = {} THEN Len(t) ELSE Min(S) - 1

\* C18: every marker of the body section of the terminal text stands in the
\* body that is sent, at the place it has in the section (counted from the
\* first token that is not whitespace), and a text without contacts and
\* subject headers gives empty contacts and an empty subject.
C18_MarkersSurvive ==
    \A r \in ExtractedRuns :
        \A i \in EmailEventsOf(r) :
            LET t == TerminalText(r)
                sec == BodySection(t)
                off == LeadingWS(sec)
                body == sent[i].email.body
            IN  /\ \A k \in 1 .. Len(sec) :
                       sec[k] \in McpMarkers =>
                           /\ k - off \in 1 .. Len(body)
                           /\ body[k - off] = sec[k]
                /\ ~ HeaderIn(t, ContactsHdr \cup SubjectHdr) =>
                       /\ sent[i].email.potential_contacts = <<>>
                       /\ sent[i].email.subject = <<>>

\* "Body: hello <<<mcp_data>>>X<<<end_mcp_data>>>" was extracted and sent
C18_Witness ==
    \E r \in ExtractedRuns :
        /\ TerminalText(r) =
               <<"Body:", WS, "hello", "<<<mcp_data>>>", "X", "<<<end_mcp_data>>>">>
        /\ \E i \in EmailEventsOf(r) :
               /\ sent[i].email.body =
                      <<"hello", "<<<mcp_data>>>", "X", "<<<end_mcp_data>>>">>
               /\ sent[i].email.potential_contacts = <<>>
               /\ sent[i].email.subject = <<>>

\* json.dumps of the dict built at lines 169-173: its keys and values
WireContent(email) == [f \in DOMAIN email \ {"set"} |-> email[f]]

\* C19: the content of every mcp_final_email has exactly the three fields
\* contacts, subject and body.
C19_EmailHasThreeFields ==
    \A i \in 1 .. Len(sent) :
        sent[i].type = "mcp_final_email" =>
            DOMAIN WireContent(sent[i].email) = {"contacts", "subject", "body"}

---------------------------------------------------------------------------
(* Properties of the connection *)

\* a task is suspended in websocket.send_text: its send has begun and has
\* not completed
McpSending(r) == mcp[r].pc \in {"send_result", "send_steps", "send_error"}
StdSending(r) == std[r].pc \in {"send_final", "send_error"}

SendsInProgress ==
    {<<r, "mcp">> : r \in {q \in Requests : McpSending(q)}}
        \cup {<<r, "standard">> : r \in {q \in Requests : StdSending(q)}}

\* C11: once the connection is lost, a run dispatched on it does nothing
\* more: a run that is resumed ends there and then, so that no model call,
\* tool call or send is issued after the disconnect.
C11_RunsCancelledOnDisconnect ==
    [][\A r \in Requests :
          ~ connected =>
              /\ mcp'[r] # mcp[r] => mcp'[r].pc = "finished"
              /\ std'[r] # std[r] => std'[r].pc = "finished"]_vars

\* C12: on the connection at most one send is in progress at any time.
C12_SingleWriter == Cardinality(SendsInProgress) <= 1

\* C13: every dispatch launches exactly the two runs of the new request,
\* touches no other run and leaves the handler receiving; and whenever the
\* handler is receiving with a frame to come, the dispatch of that frame is
\* possible, whatever the state of the earlier runs.
C13_DispatchNonBlocking ==
    /\ [][nreq' # nreq =>
            /\ nreq' = nreq + 1
            /\ mcp[nreq'].pc = "idle" /\ mcp'[nreq'].pc = "start"
            /\ std[nreq'].pc = "idle" /\ std'[nreq'].pc = "start"
            /\ \A q \in Requests \ {nreq'} : mcp'[q] = mcp[q] /\ std'[q] = std[q]
            /\ handler' = "receiving"]_vars
    /\ [](\A r \in Requests :
            (handler = "receiving" /\ connected /\ inboundLeft > 0 /\ r = nreq + 1)
                => ENABLED Dispatch(r))

\* a second request was dispatched while both runs of the first were in
\* flight, and the handler is receiving again
C13_Witness ==
    /\ nreq = 2
    /\ handler = "receiving"
    /\ mcp[1].pc \notin {"idle", "finished"}
    /\ std[1].pc \notin {"idle", "finished"}
    /\ mcp[2].pc = "start" /\ std[2].pc = "start"

\* C20: no exception of the dispatch or collector glue ends the handler:
\* it leaves its receive loop only when the client leaves; and a collector
\* that ended in its exception handler on an open connection has sent one
\* error event of source mcp.
C20_BoundaryKeepsConnection ==
    /\ handler # "failed"
    /\ \A r \in Requests :
           (connected /\ mcp[r].pc = "finished" /\ mcp[r].error_content # "")
               => Cardinality(McpErrorsOf(r)) = 1

---------------------------------------------------------------------------
(* Properties of the outbound events *)

\* the pipelines a consumer can assign an event to by its source alone
PipelinesOfSource(src) == {p \in {"mcp", "standard"} : p = src}

\* C21: every event a run sends carries a source that names the pipeline
\* which produced it, so that the source alone assigns the event to exactly
\* one of the two pipelines.
C21_EveryEventTagged ==
    \A i \in 1 .. Len(sent) :
        PipelinesOfSource(sent[i].source) = {sent[i].pipeline}

\* the types of the outbound envelope
EnvelopeTypes ==
    {"typing_start", "typing_end", "processing_complete", "final_email",
     "mcp_final_email", "error", "mcp_intermediate_steps"}

\* C22: the result of a successful single-shot run goes out as an event of
\* type final_email with source "standard" and a str content, and every
\* event of the single-shot pipeline has a type of the outbound envelope.
C22_StandardResultIsFinalEmail ==
    \A i \in 1 .. Len(sent) :
        sent[i].pipeline = "standard" =>
            /\ sent[i].type \in EnvelopeTypes
            /\ sent[i].type # "error" =>
                   /\ sent[i].type = "final_email"
                   /\ sent[i].source = "standard"
                   /\ sent[i].content.kind = "str"

---------------------------------------------------------------------------
(* Properties of the single-shot pipeline *)

\* the content the final email of run r carries, given what the model returned
StdEmailContent(r) ==
    IF Truthy(std[r].response) THEN std[r].response ELSE StdPlaceholder

\* C23: a single-shot run invokes the model exactly once, with its one
\* prompt message and no tools bound, and sends at most one event; a run
\* that finished on an open connection has sent exactly one: its final email
\* with the content the model returned (the placeholder when that content
\* is empty), or an error event of source standard, never both.
C23_OneInvocationOneEvent ==
    \A r \in Requests :
        LET ev == EventsOf(r, "standard")
        IN  /\ std[r].invocations <= 1
            /\ std[r].pc \notin {"idle", "start"} =>
                   /\ std[r].invocations = 1
                   /\ std[r].bound_tools = <<>>
                   /\ Len(std[r].model_input) = 1
                   /\ std[r].model_input[1].type = "human"
            /\ Len(ev) <= 1
            /\ (std[r].pc = "finished" /\ connected) => Len(ev) = 1
            /\ \A i \in 1 .. Len(ev) :
                   /\ std[r].pc = "finished"
                   /\ IF std[r].response # NoneContent /\ std[r].error_content = ""
                      THEN ev[i] = StandardEmailEvent(r, StdEmailContent(r))
                      ELSE ev[i] = ErrorEvent(r, "standard", "standard",
                                              std[r].error_content)

\* the model returned empty content and the placeholder went out; the run
\* of another request ended in its error event
C23_Witness ==
    \E r, q \in Requests :
        /\ connected
        /\ std[r].pc = "finished"
        /\ std[r].response = StrContent(<<>>)
        /\ EventsOf(r, "standard") = <<StandardEmailEvent(r, StdPlaceholder)>>
        /\ std[q].pc = "finished"
        /\ Len(EventsOf(q, "standard")) = 1
        /\ EventsOf(q, "standard")[1].type = "error"
        /\ EventsOf(q, "standard")[1].source = "standard"

\* C29: a single-shot streaming run that has ended has sent typing_start
\* of source standard as its first event and typing_end followed by
\* processing_complete, both of source standard, as its last two, whether
\* the generation succeeded or raised.
C29_StreamBracketed ==
    \A r \in Requests :
        std[r].pc = "finished" =>
            LET ev == EventsOf(r, "standard")
                n  == Len(ev)
            IN  /\ n >= 3
                /\ ev[1].type = "typing_start"
                /\ ev[n - 1].type = "typing_end"
                /\ ev[n].type = "processing_complete"
                /\ \A i \in {1, n - 1, n} : ev[i].source = "standard"

---------------------------------------------------------------------------
(* Properties of the model invocations of the reasoning loop *)

\* the input reasoning_node builds from a transcript
SystemThenTranscript(msgs) == <<SystemMessage(EXPLORIUM_SYSTEM_PROMPT)>> \o msgs

\* run r ends a REASON phase in this step
ReasonCompletes(r) ==
    /\ Len(mcp'[r].trace) = Len(mcp[r].trace) + 1
    /\ mcp'[r].trace[Len(mcp'[r].trace)] = "REASON"

\* C24: the model invocation of every REASON phase gets one System message,
\* the instruction set, in first place and after it the whole transcript
\* as it stands, message for message in order, with the session's whole
\* tool list bound; no System message is ever in the transcript.
C24_SystemThenFullTranscript ==
    /\ [](\A r \in Requests :
             /\ \A i \in 1 .. Len(mcp[r].messages) :
                    mcp[r].messages[i].type # "system"
             /\ mcp[r].pc = "reason" =>
                    /\ mcp[r].model_input = SystemThenTranscript(mcp[r].messages)
                    /\ mcp[r].bound_tools = tools.list
                    /\ tools.list = McpServerTools)
    /\ [][\A r \in Requests :
             ReasonCompletes(r) =>
                 /\ mcp[r].pc = "reason"
                 /\ mcp[r].model_input[1] = SystemMessage(EXPLORIUM_SYSTEM_PROMPT)
                 /\ Tail(mcp[r].model_input) = mcp[r].messages
                 /\ mcp'[r].model_input = mcp[r].model_input]_vars

\* the model is being invoked after a batch of two tool calls: its input is
\* the System message, the request, the AIMessage and both ToolMessages
C24_Witness ==
    \E r \in Requests :
        /\ mcp[r].pc = "reason"
        /\ Len(mcp[r].model_input) = 5
        /\ mcp[r].model_input[1].type = "system"
        /\ mcp[r].model_input[2].type = "human"
        /\ mcp[r].model_input[3].type = "ai"
        /\ mcp[r].model_input[4].type = "tool"
        /\ mcp[r].model_input[5].type = "tool"
        /\ Len(mcp[r].bound_tools) = 2

---------------------------------------------------------------------------
(* Properties of the terminal text *)

\* the content of the last AIMessage of the transcript of run r
LastAIContent(r) == mcp[r].messages[LastAIIndex(mcp[r].messages)].content

\* a step log without its last step when that step is the thought c
WithoutTrailingThought(s, c) ==
    IF s # <<>> /\ s[Len(s)] = ThoughtStep(c) THEN SubSeq(s, 1, Len(s) - 1) ELSE s

\* C25: once the loop of a run is DONE, the content the collector holds as
\* terminal is the content of the last AIMessage of the transcript: the
\* extracted text is taken from it, and the trailing thought of the step
\* log is compared with it; never with an earlier AIMessage or a ToolMessage.
C25_TerminalTextIsLastAI ==
    \A r \in Requests :
        mcp[r].status = "done" =>
            /\ mcp[r].last_ai_message_content = LastAIContent(r)
            /\ mcp[r].extracted_text.bound =>
                   mcp[r].extracted_text.text = ExtractedText(LastAIContent(r))
            /\ mcp[r].pc = "send_result" =>
                   StepsToSend(mcp[r]) =
                       WithoutTrailingThought(mcp[r].intermediate_steps,
                                              LastAIContent(r))

\* a run is DONE after a tool turn: its transcript has an earlier AIMessage
\* of another content and a ToolMessage, and its text was extracted
C25_Witness ==
    \E r \in Requests :
        /\ mcp[r].status = "done"
        /\ mcp[r].pc = "send_result"
        /\ mcp[r].extracted_text.bound
        /\ mcp[r].extracted_text.text # <<>>
        /\ \E i, j \in 1 .. Len(mcp[r].messages) :
               /\ i < j
               /\ mcp[r].messages[i].type = "ai"
               /\ mcp[r].messages[i].content # LastAIContent(r)
               /\ mcp[r].messages[j].type = "tool"

---------------------------------------------------------------------------
(* Properties of the join at the end of an ACT phase *)

\* every tool call of the transcript has its ToolMessage, of status success
\* or error, after the AIMessage that asked for it
AllCallsAnswered(msgs) ==
    \A i \in 1 .. Len(msgs) :
        \A k \in 1 .. Len(msgs[i].tool_calls) :
            \E j \in i + 1 .. Len(msgs) :
                /\ msgs[j].type = "tool"
                /\ msgs[j].tool_call_id = msgs[i].tool_calls[k].id
                /\ msgs[j].status \in {"success", "error"}

\* C26: no model invocation is under way while a tool call of the ACT
\* phase before it is outstanding: the ACT phase ends only with the last
\* call of its batch to return or fail, and the model is invoked with a
\* result or an error result for every call asked for so far.
C26_JoinBeforeReason ==
    /\ [](\A r \in Requests :
             mcp[r].pc = "reason" =>
                 /\ mcp[r].pending = {}
                 /\ AllCallsAnswered(mcp[r].messages)
                 /\ AllCallsAnswered(Tail(mcp[r].model_input)))
    /\ [][\A r \in Requests :
             ActCompletes(r) =>
                 /\ Cardinality(mcp[r].pending) = 1
                 /\ \A i \in DOMAIN mcp[r].outcomes \ mcp[r].pending :
                        mcp[r].outcomes[i] \in {"success", "error"}
                 /\ mcp'[r].pending = {}]_vars

\* the model is invoked after a batch of two calls, the second of which
\* failed
C26_Witness ==
    \E r \in Requests :
        /\ mcp[r].pc = "reason"
        /\ mcp[r].ncalls = 2
        /\ Len(mcp[r].messages) = 4
        /\ mcp[r].messages[3].status = "success"
        /\ mcp[r].messages[4].status = "error"

---------------------------------------------------------------------------
(* Properties of the run context *)

\* the context a tool-augmented run of request r starts from
FreshRun(r) ==
    [IdleRun EXCEPT !.pc = "start", !.status = "running",
                    !.messages = <<HumanMessage(UserInput(r))>>]

\* the Human messages of a sequence of messages
HumansIn(msgs) == {msgs[i] : i \in {j \in 1 .. Len(msgs) : msgs[j].type = "human"}}

\* C27: the tool-augmented run of a request starts with a transcript that
\* holds the Human message of that request and nothing else, an empty step
\* log and no last AI content; no message of another request ever stands in
\* its transcript or in the input of its model invocations, and a step
\* that changes one run leaves the context of every other run as it is.
C27_FreshRunContext ==
    /\ [](\A r \in Requests :
             /\ mcp[r].pc = "start" => mcp[r] = FreshRun(r)
             /\ mcp[r].pc # "idle" =>
                    /\ mcp[r].messages[1] = HumanMessage(UserInput(r))
                    /\ HumansIn(mcp[r].messages) = {HumanMessage(UserInput(r))}
                    /\ HumansIn(mcp[r].model_input) \subseteq {HumanMessage(UserInput(r))})
    /\ [][\A r \in Requests :
             /\ (mcp[r].pc = "idle" /\ mcp'[r].pc # "idle") => mcp'[r] = FreshRun(r)
             /\ mcp'[r] # mcp[r] =>
                    \A q \in Requests \ {r} : mcp'[q] = mcp[q]]_vars

\* the run of the second request starts fresh after the run of the first
\* has collected tool steps and sent its events
C27_Witness ==
    /\ nreq = 2
    /\ mcp[1].pc = "finished"
    /\ Len(mcp[1].messages) >= 4
    /\ mcp[1].intermediate_steps # <<>>
    /\ mcp[2].pc = "reason"
    /\ mcp[2].messages = <<HumanMessage(UserInput(2))>>
    /\ mcp[2].intermediate_steps = <<>>
    /\ mcp[2].last_ai_message_content = NoneContent
    /\ UserInput(2) # UserInput(1)

---------------------------------------------------------------------------
(* Properties of the tool list *)

\* the runs that have invoked the model
InvokedRuns == {r \in Requests : mcp[r].model_input # <<>>}

\* C28: the tool list of a session is loaded once, before the handler
\* receives and so before any run is dispatched; once loaded it is never
\* changed by any step of any run or of the handler, and every model
\* invocation of every run of the session has that one list bound.
C28_ToolsLoadedOnce ==
    /\ [](/\ tools.loads <= 1
          /\ (handler = "receiving" \/ nreq > 0) => tools = LoadedTools
          /\ \A r \in InvokedRuns : mcp[r].bound_tools = tools.list)
    /\ [][/\ tools.loads > 0 => tools' = tools
          /\ tools' # tools => (handler = "connecting" /\ nreq = 0)]_vars

\* two runs of one session have invoked the model with the same tool list,
\* one of them after an ACT phase
C28_Witness ==
    /\ InvokedRuns = {1, 2}
    /\ tools.loads = 1
    /\ mcp[1].bound_tools = McpServerTools
    /\ mcp[2].bound_tools = McpServerTools
    /\ "ACT" \in {mcp[1].trace[i] : i \in 1 .. Len(mcp[1].trace)}

---------------------------------------------------------------------------
(* Properties of the inbound frames *)

\* the handler takes a frame in this step and dispatches no run for it
FrameNotDispatched ==
    /\ inboundLeft' = inboundLeft - 1
    /\ nreq' = nreq

\* C30: a frame for which no run is dispatched (not JSON, not an object,
\* without a message or with an empty one, or with a message that is not
\* usable as text) changes no run, causes no outbound event, and leaves the
\* connection open and the handler receiving.
C30_UnusableFrameIgnored ==
    [][FrameNotDispatched =>
          /\ mcp' = mcp
          /\ std' = std
          /\ sent' = sent
          /\ connected' = connected
          /\ handler' = "receiving"]_vars

---------------------------------------------------------------------------
(* Properties of the connection registry *)

\* the handler is past a successful connect and has not left
HandlerActive == handler \in {"connecting", "receiving"}

\* how often a websocket stands in the registry
TimesListed(ws) ==
    Cardinality({i \in 1 .. Len(active_connections) : active_connections[i] = ws})

\* C35: the websocket is in the registry exactly while its handler is
\* between a successful connect and its exit, never twice; the registry
\* changes only by the listing at connect and by a removal of a listed
\* websocket as the handler leaves, on whatever path it leaves, and no
\* removal of an unlisted websocket is ever attempted.
C35_RegistryTracksHandler ==
    /\ [](/\ Listed(active_connections, Websocket) <=> HandlerActive
          /\ TimesListed(Websocket) <= 1
          /\ handler # "remove_failed")
    /\ [][active_connections' # active_connections =>
            \/ /\ handler = "accepting"
               /\ handler' = "connecting"
               /\ active_connections' = Append(active_connections, Websocket)
            \/ /\ HandlerActive
               /\ ~ HandlerActive'
               /\ TimesListed(Websocket) = 1
               /\ active_connections' = <<>>]_vars

\* the client left while a run was in flight: the handler has exited and
\* the registry is empty
C35_Witness ==
    /\ handler = "exited"
    /\ active_connections = <<>>
    /\ \E r \in Requests : mcp[r].pc \notin {"idle", "finished"}

---------------------------------------------------------------------------
(* Properties of the result of a tool-augmented run *)

\* run r ended in degraded mode: a model invocation raised and the apology
\* of reasoning_node is its last AIMessage
Degraded(r) ==
    /\ mcp[r].model_failed
    /\ LastMessage(mcp[r].messages) = RateLimitMessage

\* C31: a run that ends in degraded mode never sends an mcp_final_email:
\* the result it prepares and sends is the error event of source mcp with
\* the message of a failed extraction, and the step log it sends after it
\* is the log collected before the failed invocation, tool steps only.
C31_DegradedRunSendsError ==
    /\ [](\A r \in Requests :
             Degraded(r) =>
                 /\ ~ mcp[r].structured_email_data.set
                 /\ EmailEventsOf(r) = {}
                 /\ mcp[r].pc = "finished" =>
                        /\ EventsOf(r, "mcp") =
                               <<ErrorEvent(r, "mcp", "mcp", ParseFailed),
                                 StepsEvent(r, mcp[r].intermediate_steps)>>
                        /\ \A i \in 1 .. Len(mcp[r].intermediate_steps) :
                               IsToolStep(mcp[r].intermediate_steps[i]))
    /\ [][\A r \in Requests :
             (~ mcp[r].model_failed /\ mcp'[r].model_failed) =>
                 /\ mcp'[r].pc = "send_result"
                 /\ mcp'[r].message_to_send =
                        ErrorEvent(r, "mcp", "mcp", ParseFailed)
                 /\ StepsToSend(mcp'[r]) = mcp[r].intermediate_steps]_vars

\* a run whose model invocation raised after an ACT phase has sent its
\* error event and the tool steps collected before
C31_Witness ==
    \E r \in Requests :
        /\ Degraded(r)
        /\ mcp[r].pc = "finished"
        /\ Len(EventsOf(r, "mcp")) = 2
        /\ EventsOf(r, "mcp")[1].detail = ParseFailed
        /\ Len(EventsOf(r, "mcp")[2].steps) >= 2

\* the result events run r has sent
ResultEventsOf(r) ==
    {i \in 1 .. Len(sent) :
        sent[i].req = r /\ sent[i].pipeline = "mcp" /\ sent[i].type \in ResultTypes}

C33_NoThoughtInSentLog ==
    \A i \in StepsEvents :
        /\ \A k \in 1 .. Len(sent[i].steps) : IsToolStep(sent[i].steps[k])
        /\ (\A j \in 1 .. Len(mcp[sent[i].req].messages) :
                mcp[sent[i].req].messages[j].tool_calls = <<>>)
               => sent[i].steps = <<>>

\* a run whose first AIMessage had no tool calls sent its log empty, after
\* its mcp_final_email
C33_Witness ==
    \E i \in StepsEvents :
        /\ sent[i].steps = <<>>
        /\ Len(mcp[sent[i].req].messages) = 2
        /\ mcp[sent[i].req].intermediate_steps = <<>>
        /\ EmailEventsOf(sent[i].req) # {}

---------------------------------------------------------------------------
(* Properties of overlapping requests *)

\* the result event of a run whose graph reached END
ResultOf(r) ==
    IF mcp[r].structured_email_data.set
    THEN EmailEvent(r, mcp[r].structured_email_data)
    ELSE ErrorEvent(r, "mcp", "mcp",
                    IF mcp[r].extracted_text.text # <<>> THEN ParseFailed ELSE NoDraft)

\* C34: requests that overlap on a connection leave each other's runs
\* alone: a run is never restarted, its transcript only grows, a dispatch
\* changes no run of an earlier request, a run ends only by its own sends,
\* and every run that ends on the open connection has sent its own result
\* event and then its own step log, made from its own transcript.
C34_OverlapLeavesRunsAlone ==
    /\ [](\A r \in Requests :
             (mcp[r].pc = "finished" /\ mcp[r].status = "done" /\ connected) =>
                 /\ EventsOf(r, "mcp") =
                        <<ResultOf(r), StepsEvent(r, mcp[r].intermediate_steps)>>
                 /\ mcp[r].intermediate_steps = ToolStepsOf(mcp[r].messages)
                 /\ mcp[r].messages[1] = HumanMessage(UserInput(r)))
    /\ [][\A r \in Requests :
             mcp[r].pc # "idle" =>
                 /\ mcp'[r].pc = "start" => mcp[r].pc = "start"
                 /\ Len(mcp'[r].messages) >= Len(mcp[r].messages)
                 /\ SubSeq(mcp'[r].messages, 1, Len(mcp[r].messages)) = mcp[r].messages
                 /\ nreq' # nreq => (mcp'[r] = mcp[r] /\ std'[r] = std[r])
                 /\ (mcp[r].pc # "finished" /\ mcp'[r].pc = "finished") =>
                        McpSending(r)]_vars

\* both requests have ended on the open connection with their two events
\* each, and an event of the second went out between the two of the first
C34_Witness ==
    /\ connected
    /\ mcp[1].pc = "finished" /\ mcp[2].pc = "finished"
    /\ Len(EventsOf(1, "mcp")) = 2 /\ Len(EventsOf(2, "mcp")) = 2
    /\ mcp[1].intermediate_steps # <<>>
    /\ \E i, j, k \in 1 .. Len(sent) :
           /\ i < j /\ j < k
           /\ sent[i].req = 1 /\ sent[i].pipeline = "mcp"
           /\ sent[j].req = 2 /\ sent[j].pipeline = "mcp"
           /\ sent[k].req = 1 /\ sent[k].pipeline = "mcp"

---------------------------------------------------------------------------
(* Properties of sends on a lost connection *)

\* C36: a send that fails because the connection is lost stays inside its
\* run: a failed send of a result or of the step log leads to one attempt
\* to send an error event, that attempt fails and is swallowed, and the
\* task ends; nothing is delivered, and the handler, the registry and the
\* other run of the request are as before.
C36_SendFailureContained ==
    [][\A r \in Requests :
          /\ (~ connected /\ McpSending(r) /\ mcp'[r] # mcp[r]) =>
                 /\ mcp'[r].pc =
                        IF mcp[r].pc = "send_error" THEN "finished" ELSE "send_error"
                 /\ sent' = sent
                 /\ std' = std
                 /\ handler' = handler
                 /\ active_connections' = active_connections
          /\ (~ connected /\ StdSending(r) /\ std'[r] # std[r]) =>
                 /\ std'[r].pc =
                        IF std[r].pc = "send_error" THEN "finished" ELSE "send_error"
                 /\ sent' = sent
                 /\ mcp' = mcp
                 /\ handler' = handler
                 /\ active_connections' = active_connections
          /\ mcp[r].pc = "finished" => mcp'[r].pc = "finished"
          /\ std[r].pc = "finished" => std'[r].pc = "finished"]_vars

\* the connection was lost before either run of a request could send its
\* result: both runs have ended and nothing was delivered
C36_Witness ==
    \E r \in Requests :
        /\ ~ connected
        /\ sent = <<>>
        /\ mcp[r].pc = "finished"
        /\ mcp[r].error_content = "Error during MCP graph streaming: send"
        /\ std[r].pc = "finished"
        /\ std[r].error_content = "Error in Standard Agent Generation: send"

====
